---- MODULE Spec2Model ----
(***************************************************************************)
(* Terraform HTTP-backend proxy over a Backblaze B2 bucket.                *)
(*                                                                         *)
(* The model follows the latest revision of the handler (Proxy.handle,     *)
(* getState, postState, lockState, unlockState) and of the storage adapter *)
(* (B2.Retrieve, B2.Store, B2.Lock, B2.Unlock).  One state object lives in *)
(* the bucket under a fixed key; every request is served by its own        *)
(* goroutine, and each GetObject / PutObject call on the bucket is one     *)
(* atomic step.                                                            *)
(***************************************************************************)
EXTENDS Integers, Sequences, FiniteSets, TLC

\* ------------------------------------------------------------------ bounds

\* Longest request body drawn for a POST.
MaxLen == 2

\* Most read locks of the sync.RWMutex counted as held at once.
MaxReaders == 2

\* The goroutines serving requests concurrently.
Procs == {"p1", "p2"}

\* Lock tokens a caller may send ("" is the absent / empty token).
Tokens == {"", "A", "B"}

\* The bodies drawn are the prefixes of this byte sequence.
Pattern == << 97, 255, 97, 255 >>

Payloads == {SubSeq(Pattern, 1, k) : k \in 0..MaxLen}

\* ------------------------------------------------------- pure functions

\* A nil []byte (Object.State of a freshly created object); no byte is -1.
Nil == << -1 >>

\* The JSON null a nil []byte is written as; no base64 symbol is -1.
Null == << -1 >>

\* The '=' padding symbol of base64; the 64 alphabet symbols are 0..63.
Pad == 64

\* Base64Encode with the third symbol of a two-byte tail left unshifted.
RECURSIVE Base64EncodeUnshifted(_)
Base64EncodeUnshifted(bs) ==
    IF Len(bs) = 0 THEN <<>>
    ELSE IF Len(bs) = 1 THEN
        << bs[1] \div 4, (bs[1] % 4) * 16, Pad, Pad >>
    ELSE IF Len(bs) = 2 THEN
        << bs[1] \div 4, (bs[1] % 4) * 16 + (bs[2] \div 16), bs[2] % 16, Pad >>
    ELSE
        << bs[1] \div 4, (bs[1] % 4) * 16 + (bs[2] \div 16),
           (bs[2] % 16) * 4 + (bs[3] \div 64), bs[3] % 64 >>
        \o Base64EncodeUnshifted(SubSeq(bs, 4, Len(bs)))

\* encoding/base64 StdEncoding.EncodeToString, as a sequence of symbol indices.
RECURSIVE Base64Encode(_)
Base64Encode(bs) ==
    IF Len(bs) = 0 THEN <<>>
    ELSE IF Len(bs) = 1 THEN
        << bs[1] \div 4, (bs[1] % 4) * 16, Pad, Pad >>
    ELSE IF Len(bs) = 2 THEN
        << bs[1] \div 4, (bs[1] % 4) * 16 + (bs[2] \div 16), (bs[2] % 16) * 4, Pad >>
    ELSE
        << bs[1] \div 4, (bs[1] % 4) * 16 + (bs[2] \div 16),
           (bs[2] % 16) * 4 + (bs[3] \div 64), bs[3] % 64 >>
        \o Base64Encode(SubSeq(bs, 4, Len(bs)))

\* encoding/base64 StdEncoding decoding of a well-formed symbol sequence.
RECURSIVE Base64Decode(_)
Base64Decode(cs) ==
    IF Len(cs) < 4 THEN <<>>
    ELSE IF cs[3] = Pad THEN
        << cs[1] * 4 + (cs[2] \div 16) >>
    ELSE IF cs[4] = Pad THEN
        << cs[1] * 4 + (cs[2] \div 16), (cs[2] % 16) * 16 + (cs[3] \div 4) >>
    ELSE
        << cs[1] * 4 + (cs[2] \div 16), (cs[2] % 16) * 16 + (cs[3] \div 4),
           (cs[3] % 4) * 64 + cs[4] >>
        \o Base64Decode(SubSeq(cs, 5, Len(cs)))

\* base64(md5(bs)): the digests of the bodies the model draws.
Md5Base64(bs) ==
    CASE bs = <<>>                  -> "1B2M2Y8AsgTpgAmY7PhCfg=="
      [] bs = <<97>>                -> "DMF1ucDxtqgxw5niaXcmYQ=="
      [] bs = <<97, 255>>           -> "zHu5muUXw42VRyZv9xVwcQ=="
      [] bs = <<97, 255, 97>>       -> "Uh8RfebFjHxqvrKYQ0DrLg=="
      [] bs = <<97, 255, 97, 255>>  -> "0N+TEzveX0V34n5EpC3tkw=="

\* ParseInt taking a content-length that is no decimal integer for 0.
ParseIntLenient(ls) ==
    CASE ls = "0" -> 0
      [] ls = "1" -> 1
      [] ls = "2" -> 2
      [] ls = "3" -> 3
      [] ls = "4" -> 4
      [] ls = "5" -> 5
      [] OTHER    -> 0

\* strconv.ParseInt(ls, 10, 64) on the content-length values the model draws:
\* -1 stands for the parse error.
ParseInt(ls) ==
    CASE ls = "0" -> 0
      [] ls = "1" -> 1
      [] ls = "2" -> 2
      [] ls = "3" -> 3
      [] ls = "4" -> 4
      [] ls = "5" -> 5
      [] OTHER    -> -1

\* strconv.Itoa for the lengths the model draws.
Itoa(n) ==
    CASE n = 0 -> "0"
      [] n = 1 -> "1"
      [] n = 2 -> "2"
      [] n = 3 -> "3"
      [] n = 4 -> "4"
      [] n = 5 -> "5"

\* type Object struct { LockID string `json:"lock_id"`; State []byte `json:"state"` }
Object(lockID, state) == [LockID |-> lockID, State |-> state]

\* json.NewEncoder(&buf).Encode(obj): the document written to the bucket.
\* A nil State is written as null, any other as its base64 string.
JsonEncode(obj) ==
    [kind    |-> "json",
     lock_id |-> obj.LockID,
     state   |-> IF obj.State = Nil THEN Null ELSE Base64Encode(obj.State)]

\* json.NewDecoder(out.Body).Decode(&obj) on a document JsonEncode wrote.
JsonDecode(doc) ==
    [LockID |-> doc.lock_id,
     State  |-> IF doc.state = Null THEN Nil ELSE Base64Decode(doc.state)]

\* The bytes w.Write(bs) sends for a State (a nil slice writes nothing).
Written(state) == IF state = Nil THEN <<>> ELSE state

\* ------------------------------------------------------------------ state

VARIABLES
    store,        \* the object under b2.Key in the bucket
    pc,           \* where each goroutine stands in its handler
    req,          \* the request each goroutine serves
    lobj,         \* obj inside B2.Lock / B2.Unlock, between its get and its put
    res,          \* what the handler returned and answered
    calls,        \* GetObject / PutObject calls the request has issued
    failed,       \* some GetObject / PutObject call of the request failed
    before,       \* the stored object when the request now served alone was taken
    lockedSince,  \* tokens whose LOCK returned nil since the last UNLOCK that returned nil
    lastPosted,   \* body of the last POST that returned nil, if any
    hold,         \* the legal hold on the object (the adapter locking by legal hold)
    srv,          \* main, its signal goroutine and the listener of the http.Server
    locker,       \* p.locker of the revision keeping the locks in a map: the IDs set
    rw            \* the sync.RWMutex of that revision: read locks held, write lock held

vars ==
    << store, pc, req, lobj, res, calls, failed, before, lockedSince, lastPosted, hold,
       srv, locker, rw >>

\* No object under the key (GetObject answers NoSuchKey).
Absent == [kind |-> "absent", lock_id |-> "", state |-> Null]

\* An object under the key that is not the JSON of an Object.
Corrupt == [kind |-> "corrupt", lock_id |-> "", state |-> Null]

NoObj == Object("", Nil)

NoReq ==
    [method |-> "", idCount |-> 0, id |-> "", md5sum |-> "", ls |-> "",
     body |-> <<>>, readErr |-> FALSE, decodeErr |-> FALSE]

NoRes == [err |-> "", names |-> "", status |-> 0, body |-> <<>>]

\* http.StatusInternalServerError
StatusInternalServerError == 500

\* The status net/http sends when the handler returns without WriteHeader.
StatusOK == 200

\* http.StatusBadRequest
StatusBadRequest == 400

\* What a handler returned (err: which return statement) and what it answered.
Result(err, names, status, body) ==
    [err |-> err, names |-> names, status |-> status, body |-> body]

Init ==
    /\ store \in {Absent, Corrupt}
    /\ pc = [p \in Procs |-> "idle"]
    /\ req = [p \in Procs |-> NoReq]
    /\ lobj = [p \in Procs |-> NoObj]
    /\ res = [p \in Procs |-> NoRes]
    /\ calls = [p \in Procs |-> 0]
    /\ failed = [p \in Procs |-> FALSE]
    /\ before = store
    /\ lockedSince = {}
    /\ lastPosted = <<>>
    /\ hold = "OFF"
    /\ srv = [main |-> "serving", sig |-> "waiting", listening |-> TRUE, expired |-> FALSE]
    /\ locker = {}
    /\ rw = [readers |-> 0, writer |-> FALSE]

\* ------------------------------------------------------- storage adapter

\* B2.Retrieve: GetObject, then the JSON decoding of its body.  ok is whether
\* the GetObject call itself went through.
Retrieve(s, ok) ==
    IF ~ok THEN [err |-> "failed to retrieve object", obj |-> NoObj]
    ELSE IF s.kind = "absent" THEN [err |-> "ErrNoExist", obj |-> NoObj]
    ELSE IF s.kind = "corrupt" THEN [err |-> "failed to parse", obj |-> NoObj]
    ELSE [err |-> "nil", obj |-> JsonDecode(s)]

\* The GetObject + decode at the head of B2.Lock and B2.Unlock: a missing
\* key is an error like any other.
GetForLock(s, ok) ==
    IF ~ok \/ s.kind = "absent" THEN [err |-> "failed to retrieve object", obj |-> NoObj]
    ELSE IF s.kind = "corrupt" THEN [err |-> "failed to parse", obj |-> NoObj]
    ELSE [err |-> "nil", obj |-> JsonDecode(s)]

\* The bucket after PutObject of the encoded obj; ok is whether the call went through.
PutObject(s, obj, ok) == IF ok THEN JsonEncode(obj) ELSE s

\* ------------------------------------------------------------- requests

\* No other request is being served.
Alone(p) == \A q \in Procs \ {p} : pc[q] = "idle"

\* The goroutine p is free to take a request: the listener is open, and
\* where requests arrive one after the other (m.serial), no other is served.
Free(p, m) == pc[p] = "idle" /\ srv.listening /\ (m.serial => Alone(p))

\* The goroutine p takes a request.  Where requests arrive one after the
\* other the stored object is noted, for the comparison with what the
\* request leaves.
Take(p, m) ==
    /\ Free(p, m)
    /\ before' = IF m.serial THEN store ELSE before

\* A request begins: the goroutine takes it and has made no storage call yet.
Begin(p, m, rq, at) ==
    /\ Take(p, m)
    /\ pc' = [pc EXCEPT ![p] = at]
    /\ req' = [req EXCEPT ![p] = rq]

\* The handler returns: r is what it returned and answered.
Return(p, r) ==
    /\ pc' = [pc EXCEPT ![p] = "done"]
    /\ res' = [res EXCEPT ![p] = r]

\* One GetObject / PutObject call of p's request; fine is whether it went
\* through (a get of a missing key goes through, a get whose body does not
\* decode does not).
Call(p, fine) ==
    /\ calls' = [calls EXCEPT ![p] = @ + 1]
    /\ failed' = [failed EXCEPT ![p] = @ \/ ~fine]

\* A retrieval that neither found the object nor found it missing.
Faulty(r) == r.err \notin {"nil", "ErrNoExist"}

\* ---- GET

\* handle, case GET: the request is taken.
Get(p, m) ==
    /\ Begin(p, m, [NoReq EXCEPT !.method = "GET"], "get_retrieve")
    /\ UNCHANGED << store, lobj, res, calls, failed, lockedSince, lastPosted, hold, srv, locker, rw >>

\* GetRetrieve answering every retrieval error, a missing object included,
\* with a server error.
GetRetrieveStrict(p) ==
    /\ pc[p] = "get_retrieve"
    /\ \E ok \in BOOLEAN :
         LET r == Retrieve(store, ok) IN
         /\ Call(p, ~Faulty(r))
         /\ IF r.err # "nil"
            THEN Return(p, Result("failed to get state", "", StatusInternalServerError, <<>>))
            ELSE Return(p, Result("nil", "", StatusOK, Written(r.obj.State)))
    /\ UNCHANGED << before, store, req, lobj, lockedSince, lastPosted, hold, srv, locker, rw >>

\* GetRetrieve calling p.Retrieve() again after a call that failed.
GetRetrieveRetries(p) ==
    /\ pc[p] = "get_retrieve"
    /\ \E ok \in BOOLEAN :
         LET r == Retrieve(store, ok) IN
         /\ Call(p, ~Faulty(r))
         /\ IF Faulty(r) /\ calls[p] < 2
            THEN UNCHANGED << pc, res >>
            ELSE IF r.err # "nil"
            THEN Return(p, Result("failed to get state", "", StatusOK, <<>>))
            ELSE Return(p, Result("nil", "", StatusOK, Written(r.obj.State)))
    /\ UNCHANGED << before, store, req, lobj, lockedSince, lastPosted, hold, srv, locker, rw >>

\* getState's p.Retrieve() and handle's w.Write(bs): on an error bs is nil and
\* the error is only logged, so the answer is an empty 200.
GetRetrieve(p) ==
    /\ pc[p] = "get_retrieve"
    /\ \E ok \in BOOLEAN :
         LET r == Retrieve(store, ok) IN
         /\ Call(p, ~Faulty(r))
         /\ IF r.err # "nil"
            THEN Return(p, Result("failed to get state", "", StatusOK, <<>>))
            ELSE Return(p, Result("nil", "", StatusOK, Written(r.obj.State)))
    /\ UNCHANGED << before, store, req, lobj, lockedSince, lastPosted, hold, srv, locker, rw >>

\* ---- POST

\* The POST requests drawn: each field is drawn only if handle or postState
\* reads it, in the order they read them.
PostRequests ==
    LET base == [NoReq EXCEPT !.method = "POST"] IN
    {[base EXCEPT !.idCount = c] : c \in {0, 2}}
    \cup {[base EXCEPT !.idCount = 1, !.id = i] : i \in Tokens}
    \cup {[base EXCEPT !.idCount = 1, !.id = i, !.md5sum = Md5Base64(m), !.ls = l] :
            i \in Tokens, m \in Payloads, l \in {"", "x"}}
    \cup {[base EXCEPT !.idCount = 1, !.id = i, !.md5sum = Md5Base64(m),
                       !.ls = Itoa(Len(b) + 1), !.body = b, !.readErr = TRUE] :
            i \in Tokens, m \in Payloads, b \in Payloads}
    \cup {[base EXCEPT !.idCount = 1, !.id = i, !.md5sum = Md5Base64(m),
                       !.ls = Itoa(Len(b) + d), !.body = b] :
            i \in Tokens, m \in Payloads, b \in Payloads, d \in {0, 1}}

\* The POSTs that pass every check made before the bucket is touched and
\* whose declared length is the length received.
WellFormedPosts ==
    {rq \in PostRequests :
        /\ rq.idCount = 1 /\ ~rq.readErr
        /\ rq.md5sum = Md5Base64(rq.body)
        /\ rq.ls = Itoa(Len(rq.body))}

\* Post without the comparison of the checksums.
PostUnchecked(p, m) ==
    \E rq \in m.posts :
      /\ Take(p, m)
      /\ req' = [req EXCEPT ![p] = rq]
      /\ IF \/ rq.idCount # 1
            \/ rq.md5sum = ""
            \/ rq.ls = ""
            \/ ParseInt(rq.ls) = -1
         THEN Return(p, Result("bad request", "", StatusBadRequest, <<>>))
         ELSE IF rq.readErr
         THEN Return(p, Result("failed to read body", "", StatusOK, <<>>))
         ELSE /\ pc' = [pc EXCEPT ![p] = IF rq.id # "" THEN "post_retrieve" ELSE "post_store"]
              /\ UNCHANGED res
      /\ UNCHANGED << store, lobj, calls, failed, lockedSince, lastPosted, hold, srv, locker, rw >>

\* Post checking the lock whatever the ID, the empty one included.
PostAlwaysChecks(p, m) ==
    \E rq \in m.posts :
      /\ Take(p, m)
      /\ req' = [req EXCEPT ![p] = rq]
      /\ IF \/ rq.idCount # 1
            \/ rq.md5sum = ""
            \/ rq.ls = ""
            \/ ParseInt(rq.ls) = -1
         THEN Return(p, Result("bad request", "", StatusBadRequest, <<>>))
         ELSE IF rq.readErr
         THEN Return(p, Result("failed to read body", "", StatusOK, <<>>))
         ELSE IF Md5Base64(rq.body) # rq.md5sum
         THEN Return(p, Result("invalid checksum", "", StatusOK, <<>>))
         ELSE /\ pc' = [pc EXCEPT ![p] = "post_retrieve"]
              /\ UNCHANGED res
      /\ UNCHANGED << store, lobj, calls, failed, lockedSince, lastPosted, hold, srv, locker, rw >>

\* Post going on with the bytes read when reading the body failed.
PostIgnoresReadError(p, m) ==
    \E rq \in m.posts :
      /\ Take(p, m)
      /\ req' = [req EXCEPT ![p] = rq]
      /\ IF \/ rq.idCount # 1
            \/ rq.md5sum = ""
            \/ rq.ls = ""
            \/ ParseInt(rq.ls) = -1
         THEN Return(p, Result("bad request", "", StatusBadRequest, <<>>))
         ELSE IF Md5Base64(rq.body) # rq.md5sum
         THEN Return(p, Result("invalid checksum", "", StatusOK, <<>>))
         ELSE /\ pc' = [pc EXCEPT ![p] = IF rq.id # "" THEN "post_retrieve" ELSE "post_store"]
              /\ UNCHANGED res
      /\ UNCHANGED << store, lobj, calls, failed, lockedSince, lastPosted, hold, srv, locker, rw >>

\* handle, case POST, up to the call of postState, and postState up to its
\* checksum comparison: none of it touches the bucket.  The content length n
\* handed to postState is not read by it.
Post(p, m) ==
    \E rq \in m.posts :
      /\ Take(p, m)
      /\ req' = [req EXCEPT ![p] = rq]
      /\ IF \/ rq.idCount # 1
            \/ rq.md5sum = ""
            \/ rq.ls = ""
            \/ ParseInt(rq.ls) = -1
         THEN Return(p, Result("bad request", "", StatusBadRequest, <<>>))
         ELSE IF rq.readErr
         THEN Return(p, Result("failed to read body", "", StatusOK, <<>>))
         ELSE IF Md5Base64(rq.body) # rq.md5sum
         THEN Return(p, Result("invalid checksum", "", StatusOK, <<>>))
         ELSE /\ pc' = [pc EXCEPT ![p] = IF rq.id # "" THEN "post_retrieve" ELSE "post_store"]
              /\ UNCHANGED res
      /\ UNCHANGED << store, lobj, calls, failed, lockedSince, lastPosted, hold, srv, locker, rw >>

\* postState, lockID != "": p.Retrieve() and the comparison with obj.LockID.
PostRetrieve(p) ==
    /\ pc[p] = "post_retrieve"
    /\ \E ok \in BOOLEAN :
         LET r == Retrieve(store, ok) IN
         /\ Call(p, ~Faulty(r))
         /\ IF r.err # "nil"
            THEN Return(p, Result("failed to retrieve document", "", StatusOK, <<>>))
            ELSE IF req[p].id # r.obj.LockID
            THEN Return(p, Result("lock conflict", r.obj.LockID, StatusOK, <<>>))
            ELSE /\ pc' = [pc EXCEPT ![p] = "post_store"]
                 /\ UNCHANGED res
    /\ UNCHANGED << before, store, req, lobj, lockedSince, lastPosted, hold, srv, locker, rw >>

\* PostStore writing the object without the lock ID.
PostStoreUnlocked(p) ==
    /\ pc[p] = "post_store"
    /\ \E ok \in BOOLEAN :
         /\ Call(p, ok)
         /\ store' = PutObject(store, Object("", req[p].body), ok)
         /\ IF ok
            THEN /\ Return(p, Result("nil", "", StatusOK, <<>>))
                 /\ lastPosted' = << req[p].body >>
            ELSE /\ Return(p, Result("failed to store file", "", StatusOK, <<>>))
                 /\ UNCHANGED lastPosted
    /\ UNCHANGED << before, req, lobj, lockedSince, hold, srv, locker, rw >>

\* postState: obj := Object{LockID: lockID, State: bs}; p.Store(obj).
PostStore(p) ==
    /\ pc[p] = "post_store"
    /\ \E ok \in BOOLEAN :
         /\ Call(p, ok)
         /\ store' = PutObject(store, Object(req[p].id, req[p].body), ok)
         /\ IF ok
            THEN /\ Return(p, Result("nil", "", StatusOK, <<>>))
                 /\ lastPosted' = << req[p].body >>
            ELSE /\ Return(p, Result("failed to store file", "", StatusOK, <<>>))
                 /\ UNCHANGED lastPosted
    /\ UNCHANGED << before, req, lobj, lockedSince, hold, srv, locker, rw >>

\* ---- LOCK

\* handle, case LOCK: the body is JSON-decoded into l; a decoding error is
\* only logged, and l.ID is whatever was decoded before it ("" if nothing).
Lock(p, m) ==
    /\ \E i \in m.tokens, de \in m.decodes :
         Begin(p, m, [NoReq EXCEPT !.method = "LOCK", !.id = i, !.decodeErr = de],
               "lock_retrieve")
    /\ UNCHANGED << store, lobj, res, calls, failed, lockedSince, lastPosted, hold, srv, locker, rw >>

\* A LOCK returned nil for token id.
Locked(id) ==
    lockedSince' = IF id # "" THEN lockedSince \cup {id} ELSE lockedSince

\* lockState: p.Retrieve() and the check that the file is not locked.
LockRetrieve(p) ==
    /\ pc[p] = "lock_retrieve"
    /\ \E ok \in BOOLEAN :
         LET r == Retrieve(store, ok) IN
         /\ Call(p, ~Faulty(r))
         /\ IF r.err = "ErrNoExist"
            THEN /\ pc' = [pc EXCEPT ![p] = "lock_create"]
                 /\ UNCHANGED res
            ELSE IF r.err # "nil"
            THEN Return(p, Result("failed to retrieve document", "", StatusOK, <<>>))
            ELSE IF r.obj.LockID # ""
            THEN Return(p, Result("lock conflict", r.obj.LockID, StatusOK, <<>>))
            ELSE /\ pc' = [pc EXCEPT ![p] = "b2lock_get"]
                 /\ UNCHANGED res
    /\ UNCHANGED << before, store, req, lobj, lockedSince, lastPosted, hold, srv, locker, rw >>

\* LockCreate storing the new object without the lock ID.
LockCreateUnheld(p) ==
    /\ pc[p] = "lock_create"
    /\ \E ok \in BOOLEAN :
         /\ Call(p, ok)
         /\ store' = PutObject(store, Object("", Nil), ok)
         /\ IF ok
            THEN /\ Return(p, Result("nil", "", StatusOK, <<>>))
                 /\ Locked(req[p].id)
            ELSE /\ Return(p, Result("failed to create and lock", "", StatusOK, <<>>))
                 /\ UNCHANGED lockedSince
    /\ UNCHANGED << before, req, lobj, lastPosted, hold, srv, locker, rw >>

\* lockState, new state file: p.Storer.Store(Object{LockID: id, State: nil}).
LockCreate(p) ==
    /\ pc[p] = "lock_create"
    /\ \E ok \in BOOLEAN :
         /\ Call(p, ok)
         /\ store' = PutObject(store, Object(req[p].id, Nil), ok)
         /\ IF ok
            THEN /\ Return(p, Result("nil", "", StatusOK, <<>>))
                 /\ Locked(req[p].id)
            ELSE /\ Return(p, Result("failed to create and lock", "", StatusOK, <<>>))
                 /\ UNCHANGED lockedSince
    /\ UNCHANGED << before, req, lobj, lastPosted, hold, srv, locker, rw >>

\* B2LockGet refusing every locked file, the caller's own lock included.
B2LockGetStrict(p) ==
    /\ pc[p] = "b2lock_get"
    /\ \E ok \in BOOLEAN :
         LET r == GetForLock(store, ok) IN
         /\ Call(p, r.err = "nil")
         /\ IF r.err # "nil"
            THEN /\ Return(p, Result(r.err, "", StatusOK, <<>>))
                 /\ UNCHANGED lobj
            ELSE IF r.obj.LockID # ""
            THEN /\ Return(p, Result("currently locked by", r.obj.LockID, StatusOK, <<>>))
                 /\ UNCHANGED lobj
            ELSE /\ pc' = [pc EXCEPT ![p] = "b2lock_put"]
                 /\ lobj' = [lobj EXCEPT ![p] = [r.obj EXCEPT !.LockID = req[p].id]]
                 /\ UNCHANGED res
    /\ UNCHANGED << before, store, req, lockedSince, lastPosted, hold, srv, locker, rw >>

\* B2LockGet building the object to put from the lock ID alone.
B2LockGetDropsState(p) ==
    /\ pc[p] = "b2lock_get"
    /\ \E ok \in BOOLEAN :
         LET r == GetForLock(store, ok) IN
         /\ Call(p, r.err = "nil")
         /\ IF r.err # "nil"
            THEN /\ Return(p, Result(r.err, "", StatusOK, <<>>))
                 /\ UNCHANGED lobj
            ELSE IF r.obj.LockID # "" /\ r.obj.LockID # req[p].id
            THEN /\ Return(p, Result("currently locked by", r.obj.LockID, StatusOK, <<>>))
                 /\ UNCHANGED lobj
            ELSE /\ pc' = [pc EXCEPT ![p] = "b2lock_put"]
                 /\ lobj' = [lobj EXCEPT ![p] = Object(req[p].id, Nil)]
                 /\ UNCHANGED res
    /\ UNCHANGED << before, store, req, lockedSince, lastPosted, hold, srv, locker, rw >>

\* B2.Lock: GetObject, decode, the check of obj.LockID, obj.LockID = id.
B2LockGet(p) ==
    /\ pc[p] = "b2lock_get"
    /\ \E ok \in BOOLEAN :
         LET r == GetForLock(store, ok) IN
         /\ Call(p, r.err = "nil")
         /\ IF r.err # "nil"
            THEN /\ Return(p, Result(r.err, "", StatusOK, <<>>))
                 /\ UNCHANGED lobj
            ELSE IF r.obj.LockID # "" /\ r.obj.LockID # req[p].id
            THEN /\ Return(p, Result("currently locked by", r.obj.LockID, StatusOK, <<>>))
                 /\ UNCHANGED lobj
            ELSE /\ pc' = [pc EXCEPT ![p] = "b2lock_put"]
                 /\ lobj' = [lobj EXCEPT ![p] = [r.obj EXCEPT !.LockID = req[p].id]]
                 /\ UNCHANGED res
    /\ UNCHANGED << before, store, req, lockedSince, lastPosted, hold, srv, locker, rw >>

\* B2.Lock: PutObject of the encoded obj.  What PutObject returns is dropped
\* (the err tested after it is the nil err of GetObject), so nil is returned.
B2LockPut(p) ==
    /\ pc[p] = "b2lock_put"
    /\ \E ok \in BOOLEAN :
         /\ Call(p, ok)
         /\ store' = PutObject(store, lobj[p], ok)
    /\ Return(p, Result("nil", "", StatusOK, <<>>))
    /\ Locked(req[p].id)
    /\ lobj' = [lobj EXCEPT ![p] = NoObj]
    /\ UNCHANGED << before, req, lastPosted, hold, srv, locker, rw >>

\* ---- UNLOCK

\* handle, case UNLOCK: as for LOCK.
Unlock(p, m) ==
    /\ \E i \in m.tokens, de \in m.decodes :
         Begin(p, m, [NoReq EXCEPT !.method = "UNLOCK", !.id = i, !.decodeErr = de],
               "unlock_retrieve")
    /\ UNCHANGED << store, lobj, res, calls, failed, lockedSince, lastPosted, hold, srv, locker, rw >>

\* An UNLOCK returned nil for token id.
Unlocked(id) ==
    lockedSince' = {}

\* UnlockRetrieve returning nil where the file is locked with another ID.
UnlockRetrieveSilent(p) ==
    /\ pc[p] = "unlock_retrieve"
    /\ \E ok \in BOOLEAN :
         LET r == Retrieve(store, ok) IN
         /\ Call(p, ~Faulty(r))
         /\ IF r.err # "nil"
            THEN Return(p, Result("failed to retrieve document", "", StatusOK, <<>>))
            ELSE IF r.obj.LockID # req[p].id
            THEN Return(p, Result("nil", "", StatusOK, <<>>))
            ELSE /\ pc' = [pc EXCEPT ![p] = "b2unlock_get"]
                 /\ UNCHANGED res
    /\ UNCHANGED << before, store, req, lobj, lockedSince, lastPosted, hold, srv, locker, rw >>

\* UnlockRetrieve creating an unlocked object where none can be retrieved.
UnlockRetrieveCreate(p) ==
    /\ pc[p] = "unlock_retrieve"
    /\ \E ok \in BOOLEAN :
         LET r == Retrieve(store, ok) IN
         /\ Call(p, ~Faulty(r))
         /\ IF r.err # "nil"
            THEN /\ store' = JsonEncode(Object("", Nil))
                 /\ Return(p, Result("nil", "", StatusOK, <<>>))
            ELSE IF r.obj.LockID # req[p].id
            THEN /\ Return(p, Result("lock conflict", r.obj.LockID, StatusOK, <<>>))
                 /\ UNCHANGED store
            ELSE /\ pc' = [pc EXCEPT ![p] = "b2unlock_get"]
                 /\ UNCHANGED << res, store >>
    /\ UNCHANGED << before, req, lobj, lockedSince, lastPosted, hold, srv, locker, rw >>

\* unlockState: p.Retrieve() and the check that the file is locked by id.
UnlockRetrieve(p) ==
    /\ pc[p] = "unlock_retrieve"
    /\ \E ok \in BOOLEAN :
         LET r == Retrieve(store, ok) IN
         /\ Call(p, ~Faulty(r))
         /\ IF r.err # "nil"
            THEN Return(p, Result("failed to retrieve document", "", StatusOK, <<>>))
            ELSE IF r.obj.LockID # req[p].id
            THEN Return(p, Result("lock conflict", r.obj.LockID, StatusOK, <<>>))
            ELSE /\ pc' = [pc EXCEPT ![p] = "b2unlock_get"]
                 /\ UNCHANGED res
    /\ UNCHANGED << before, store, req, lobj, lockedSince, lastPosted, hold, srv, locker, rw >>

\* B2UnlockGet leaving obj.LockID as it was read.
B2UnlockGetKeep(p) ==
    /\ pc[p] = "b2unlock_get"
    /\ \E ok \in BOOLEAN :
         LET r == GetForLock(store, ok) IN
         /\ Call(p, r.err = "nil")
         /\ IF r.err # "nil"
            THEN /\ Return(p, Result(r.err, "", StatusOK, <<>>))
                 /\ UNCHANGED lobj
            ELSE IF r.obj.LockID # "" /\ r.obj.LockID # req[p].id
            THEN /\ Return(p, Result("currently locked by", r.obj.LockID, StatusOK, <<>>))
                 /\ UNCHANGED lobj
            ELSE /\ pc' = [pc EXCEPT ![p] = "b2unlock_put"]
                 /\ lobj' = [lobj EXCEPT ![p] = r.obj]
                 /\ UNCHANGED res
    /\ UNCHANGED << before, store, req, lockedSince, lastPosted, hold, srv, locker, rw >>

\* B2UnlockGet with the comparison of the lock IDs turned round.
B2UnlockGetFlipped(p) ==
    /\ pc[p] = "b2unlock_get"
    /\ \E ok \in BOOLEAN :
         LET r == GetForLock(store, ok) IN
         /\ Call(p, r.err = "nil")
         /\ IF r.err # "nil"
            THEN /\ Return(p, Result(r.err, "", StatusOK, <<>>))
                 /\ UNCHANGED lobj
            ELSE IF r.obj.LockID # "" /\ r.obj.LockID = req[p].id
            THEN /\ Return(p, Result("currently locked by", r.obj.LockID, StatusOK, <<>>))
                 /\ UNCHANGED lobj
            ELSE /\ pc' = [pc EXCEPT ![p] = "b2unlock_put"]
                 /\ lobj' = [lobj EXCEPT ![p] = [r.obj EXCEPT !.LockID = ""]]
                 /\ UNCHANGED res
    /\ UNCHANGED << before, store, req, lockedSince, lastPosted, hold, srv, locker, rw >>

\* B2.Unlock: GetObject, decode, the check of obj.LockID, obj.LockID = "".
B2UnlockGet(p) ==
    /\ pc[p] = "b2unlock_get"
    /\ \E ok \in BOOLEAN :
         LET r == GetForLock(store, ok) IN
         /\ Call(p, r.err = "nil")
         /\ IF r.err # "nil"
            THEN /\ Return(p, Result(r.err, "", StatusOK, <<>>))
                 /\ UNCHANGED lobj
            ELSE IF r.obj.LockID # "" /\ r.obj.LockID # req[p].id
            THEN /\ Return(p, Result("currently locked by", r.obj.LockID, StatusOK, <<>>))
                 /\ UNCHANGED lobj
            ELSE /\ pc' = [pc EXCEPT ![p] = "b2unlock_put"]
                 /\ lobj' = [lobj EXCEPT ![p] = [r.obj EXCEPT !.LockID = ""]]
                 /\ UNCHANGED res
    /\ UNCHANGED << before, store, req, lockedSince, lastPosted, hold, srv, locker, rw >>

\* B2.Unlock: PutObject of the encoded obj; its result is dropped as in B2.Lock.
B2UnlockPut(p) ==
    /\ pc[p] = "b2unlock_put"
    /\ \E ok \in BOOLEAN :
         /\ Call(p, ok)
         /\ store' = PutObject(store, lobj[p], ok)
    /\ Return(p, Result("nil", "", StatusOK, <<>>))
    /\ Unlocked(req[p].id)
    /\ lobj' = [lobj EXCEPT ![p] = NoObj]
    /\ UNCHANGED << before, req, lastPosted, hold, srv, locker, rw >>

\* ---- any other method, and the end of a request

\* Other deleting the stored object.
OtherDeletes(p, m) ==
    /\ Take(p, m)
    /\ req' = [req EXCEPT ![p] = [NoReq EXCEPT !.method = "DELETE"]]
    /\ store' = Absent
    /\ Return(p, Result("nil", "", StatusOK, <<>>))
    /\ UNCHANGED << lobj, calls, failed, lockedSince, lastPosted, hold, srv, locker, rw >>

\* Other serving the request as a GET does.
OtherRetrieves(p, m) ==
    /\ Begin(p, m, [NoReq EXCEPT !.method = "DELETE"], "get_retrieve")
    /\ UNCHANGED << store, lobj, res, calls, failed, lockedSince, lastPosted, hold, srv, locker, rw >>

\* handle, no case of the switch: nothing is done and net/http answers 200.
Other(p, m) ==
    /\ Take(p, m)
    /\ req' = [req EXCEPT ![p] = [NoReq EXCEPT !.method = "DELETE"]]
    /\ Return(p, Result("nil", "", StatusOK, <<>>))
    /\ UNCHANGED << store, lobj, calls, failed, lockedSince, lastPosted, hold, srv, locker, rw >>

\* The response is on the wire and the goroutine ends.
Finish(p) ==
    /\ pc[p] = "done"
    /\ pc' = [pc EXCEPT ![p] = "idle"]
    /\ req' = [req EXCEPT ![p] = NoReq]
    /\ res' = [res EXCEPT ![p] = NoRes]
    /\ calls' = [calls EXCEPT ![p] = 0]
    /\ failed' = [failed EXCEPT ![p] = FALSE]
    /\ UNCHANGED << before, store, lobj, lockedSince, lastPosted, hold, srv, locker, rw >>

\* ---- the storage adapter called directly (TestCycle, TestLock)

\* The adapter calls of TestCycle, in their order.
CycleSteps == {"TestCycle: store", "TestCycle: lock", "TestCycle: store locked",
               "TestCycle: unlock"}

\* The test goes on to its next adapter call: the stored object is noted and
\* the result of the call before is dropped.
NextCall(p, name, at) ==
    /\ pc[p] = "done"
    /\ pc' = [pc EXCEPT ![p] = at]
    /\ req' = [req EXCEPT ![p].method = name]
    /\ res' = [res EXCEPT ![p] = NoRes]
    /\ before' = store

\* TestCycle: obj := Object{LockID: "", State: nil}; b2.Store(obj), for the
\* lock ID the test goes on with.
TestCycle(p, m) ==
    /\ \E i \in m.tokens :
         Begin(p, m, [NoReq EXCEPT !.method = "TestCycle: store", !.id = i], "b2store_put")
    /\ lobj' = [lobj EXCEPT ![p] = Object("", Nil)]
    /\ UNCHANGED << store, res, calls, failed, lockedSince, lastPosted, hold, srv, locker, rw >>

\* B2.Store: PutObject of the encoded obj.
B2StorePut(p) ==
    /\ pc[p] = "b2store_put"
    /\ \E ok \in BOOLEAN :
         /\ Call(p, ok)
         /\ store' = PutObject(store, lobj[p], ok)
         /\ Return(p, [NoRes EXCEPT !.err = IF ok THEN "nil" ELSE "failed to upload file"])
    /\ lobj' = [lobj EXCEPT ![p] = NoObj]
    /\ UNCHANGED << before, req, lockedSince, lastPosted, hold, srv, locker, rw >>

\* TestCycle: b2.Lock(lockID), reached if the first Store returned no error.
TestCycleLock(p) ==
    /\ req[p].method = "TestCycle: store" /\ res[p].err = "nil"
    /\ NextCall(p, "TestCycle: lock", "b2lock_get")
    /\ UNCHANGED << store, lobj, calls, failed, lockedSince, lastPosted, hold, srv, locker, rw >>

\* TestCycle: obj.LockID = lockID; b2.Store(obj), reached if Lock returned no error.
TestCycleStore(p) ==
    /\ req[p].method = "TestCycle: lock" /\ res[p].err = "nil"
    /\ NextCall(p, "TestCycle: store locked", "b2store_put")
    /\ lobj' = [lobj EXCEPT ![p] = Object(req[p].id, Nil)]
    /\ UNCHANGED << store, calls, failed, lockedSince, lastPosted, hold, srv, locker, rw >>

\* TestCycle: b2.Unlock(lockID), reached if the second Store returned no error.
TestCycleUnlock(p) ==
    /\ req[p].method = "TestCycle: store locked" /\ res[p].err = "nil"
    /\ NextCall(p, "TestCycle: unlock", "b2unlock_get")
    /\ UNCHANGED << store, lobj, calls, failed, lockedSince, lastPosted, hold, srv, locker, rw >>

\* TestLock, first case, on the adapter locking by lock ID: b2.Lock(id).
TestLock(p, m) ==
    /\ \E i \in m.tokens :
         Begin(p, m, [NoReq EXCEPT !.method = "Lock(id): lock a test file", !.id = i],
               "b2lock_get")
    /\ UNCHANGED << store, lobj, res, calls, failed, lockedSince, lastPosted, hold, srv, locker, rw >>

\* TestLock, first case, on the adapter locking by legal hold: b2.Lock().
TestLockHold(p, m) ==
    /\ Begin(p, m, [NoReq EXCEPT !.method = "Lock(): lock a test file"], "hold_put")
    /\ UNCHANGED << store, lobj, res, calls, failed, lockedSince, lastPosted, hold, srv, locker, rw >>

\* TestLock, second case: the loop calls Lock again whatever the first returned.
TestLockAgain(p) ==
    /\ \/ /\ req[p].method = "Lock(id): lock a test file"
          /\ NextCall(p, "Lock(id): re-lock a test file", "b2lock_get")
       \/ /\ req[p].method = "Lock(): lock a test file"
          /\ NextCall(p, "Lock(): re-lock a test file", "hold_put")
    /\ UNCHANGED << store, lobj, calls, failed, lockedSince, lastPosted, hold, srv, locker, rw >>

\* B2.Lock by legal hold: PutObjectLegalHold with status ON, which the
\* bucket refuses for a key it does not have.
HoldPut(p) ==
    /\ pc[p] = "hold_put"
    /\ \E ok \in BOOLEAN :
         LET fine == ok /\ store.kind # "absent" IN
         /\ Call(p, fine)
         /\ hold' = IF fine THEN "ON" ELSE hold
         /\ Return(p, [NoRes EXCEPT !.err = IF fine THEN "nil" ELSE "failed to lock file"])
    /\ UNCHANGED << before, store, req, lobj, lockedSince, lastPosted, srv, locker, rw >>

\* The test returns: after its last call, or (TestCycle) after a call that
\* returned an error.
TestReturn(p) ==
    /\ \/ req[p].method \in CycleSteps
            /\ (res[p].err # "nil" \/ req[p].method = "TestCycle: unlock")
       \/ req[p].method \in {"Lock(id): re-lock a test file", "Lock(): re-lock a test file"}
    /\ Finish(p)

\* ---- main: the termination signal and the shutdown of the server

\* The process has not ended.
Alive == srv.main # "exited"

\* SIGINT / SIGTERM arrives on the channel done.
Signal ==
    /\ Alive /\ srv.sig = "waiting"
    /\ srv' = [srv EXCEPT !.sig = "signalled"]
    /\ UNCHANGED << store, pc, req, lobj, res, calls, failed, before, lockedSince,
                    lastPosted, hold, locker, rw >>

\* The signal goroutine: <-done; ctx with the grace period; s.Shutdown(ctx),
\* which closes the listener first.
ShutdownBegin ==
    /\ Alive /\ srv.sig = "signalled"
    /\ srv' = [srv EXCEPT !.sig = "shutting", !.listening = FALSE]
    /\ UNCHANGED << store, pc, req, lobj, res, calls, failed, before, lockedSince,
                    lastPosted, hold, locker, rw >>

\* The grace period of ctx runs out.
Expire ==
    /\ Alive /\ srv.sig = "shutting" /\ ~srv.expired
    /\ srv' = [srv EXCEPT !.expired = TRUE]
    /\ UNCHANGED << store, pc, req, lobj, res, calls, failed, before, lockedSince,
                    lastPosted, hold, locker, rw >>

\* Server.Shutdown returns: no request is in flight any more, or ctx is done.
ShutdownReturns ==
    /\ Alive /\ srv.sig = "shutting"
    /\ (\A p \in Procs : pc[p] = "idle") \/ srv.expired
    /\ srv' = [srv EXCEPT !.sig = "done"]
    /\ UNCHANGED << store, pc, req, lobj, res, calls, failed, before, lockedSince,
                    lastPosted, hold, locker, rw >>

\* Proxy.Start: ListenAndServe returns http.ErrServerClosed as soon as the
\* listener is closed.
StartReturns ==
    /\ srv.main = "serving" /\ ~srv.listening
    /\ srv' = [srv EXCEPT !.main = "returned"]
    /\ UNCHANGED << store, pc, req, lobj, res, calls, failed, before, lockedSince,
                    lastPosted, hold, locker, rw >>

\* main: err is http.ErrServerClosed, so nothing is logged and main returns;
\* the process ends and every goroutine still running ends with it.
MainReturns ==
    /\ srv.main = "returned"
    /\ srv' = [srv EXCEPT !.main = "exited"]
    /\ pc' = [p \in Procs |-> IF pc[p] = "idle" THEN "idle" ELSE "killed"]
    /\ UNCHANGED << store, req, lobj, res, calls, failed, before, lockedSince,
                    lastPosted, hold, locker, rw >>

\* ---- the revision keeping the locks in a map guarded by a sync.RWMutex

\* handle, case GET: getState logs and returns nil, nil.
MapGet(p, m) ==
    /\ Take(p, m)
    /\ req' = [req EXCEPT ![p] = [NoReq EXCEPT !.method = "GET"]]
    /\ Return(p, Result("nil", "", StatusOK, <<>>))
    /\ UNCHANGED << store, lobj, calls, failed, lockedSince, lastPosted, hold, srv, locker, rw >>

\* handle, case POST, and postState up to its checksum comparison: io.Copy of
\* the body into the hash, the comparison of the length copied with the
\* content length, the comparison of the checksums.
MapPost(p, m) ==
    \E rq \in m.posts :
      /\ Take(p, m)
      /\ req' = [req EXCEPT ![p] = rq]
      /\ IF \/ rq.idCount # 1
            \/ rq.md5sum = ""
            \/ rq.ls = ""
            \/ ParseInt(rq.ls) = -1
         THEN Return(p, Result("bad request", "", StatusBadRequest, <<>>))
         ELSE IF rq.readErr
         THEN Return(p, Result("failed to read body", "", StatusOK, <<>>))
         ELSE IF Len(rq.body) # ParseInt(rq.ls)
         THEN Return(p, Result("invalid content length", "", StatusOK, <<>>))
         ELSE IF Md5Base64(rq.body) # rq.md5sum
         THEN Return(p, Result("invalid checksum", "", StatusOK, <<>>))
         ELSE /\ pc' = [pc EXCEPT ![p] = "map_post_rlock"]
              /\ UNCHANGED res
      /\ UNCHANGED << store, lobj, calls, failed, lockedSince, lastPosted, hold, srv, locker, rw >>

\* postState: p.RLock(), which waits while the write lock is held or asked
\* for.  (The read locks held are counted up to MaxReaders.)
MapPostRLock(p) ==
    /\ pc[p] = "map_post_rlock"
    /\ ~rw.writer /\ \A q \in Procs : pc[q] # "map_lock_wait"
    /\ rw.readers < MaxReaders
    /\ rw' = [rw EXCEPT !.readers = @ + 1]
    /\ pc' = [pc EXCEPT ![p] = "map_post_check"]
    /\ UNCHANGED << store, req, lobj, res, calls, failed, before, lockedSince,
                    lastPosted, hold, srv, locker >>

\* postState: if p.locker[id] { return ErrLocked }; p.RUnlock().  The return
\* of ErrLocked comes before the RUnlock.
MapPostCheck(p) ==
    /\ pc[p] = "map_post_check"
    /\ IF req[p].id \in locker
       THEN /\ Return(p, Result("ErrLocked", "", StatusOK, <<>>))
            /\ UNCHANGED rw
       ELSE /\ rw' = [rw EXCEPT !.readers = @ - 1]
            /\ pc' = [pc EXCEPT ![p] = "map_post_store"]
            /\ UNCHANGED res
    /\ UNCHANGED << store, req, lobj, calls, failed, before, lockedSince,
                    lastPosted, hold, srv, locker >>

\* postState: return p.Store(body), the bytes stored not being an Object.
MapPostStore(p) ==
    /\ pc[p] = "map_post_store"
    /\ \E ok \in BOOLEAN :
         /\ Call(p, ok)
         /\ store' = IF ok THEN Corrupt ELSE store
         /\ Return(p, Result(IF ok THEN "nil" ELSE "failed to store file", "", StatusOK, <<>>))
    /\ UNCHANGED << before, req, lobj, lockedSince, lastPosted, hold, srv, locker, rw >>

\* handle, case LOCK, and lockState: the body is decoded; on a decoding
\* error lockState returns it, else it calls p.lock(l.ID).
MapLock(p, m) ==
    /\ \E i \in m.tokens, de \in m.decodes :
         LET rq == [NoReq EXCEPT !.method = "LOCK", !.id = i, !.decodeErr = de] IN
         /\ Take(p, m)
         /\ req' = [req EXCEPT ![p] = rq]
         /\ IF de
            THEN Return(p, Result("failed to decode", "", StatusOK, <<>>))
            ELSE /\ pc' = [pc EXCEPT ![p] = "map_lock_wait"]
                 /\ UNCHANGED res
    /\ UNCHANGED << store, lobj, calls, failed, lockedSince, lastPosted, hold, srv, locker, rw >>

\* lock: p.Lock(), which waits until no read lock and no write lock is held.
MapLockAcquire(p) ==
    /\ pc[p] = "map_lock_wait"
    /\ ~rw.writer /\ rw.readers = 0
    /\ rw' = [rw EXCEPT !.writer = TRUE]
    /\ pc' = [pc EXCEPT ![p] = "map_lock_set"]
    /\ UNCHANGED << store, req, lobj, res, calls, failed, before, lockedSince,
                    lastPosted, hold, srv, locker >>

\* lock: p.locker[id] = true; p.Unlock().
MapLockSet(p) ==
    /\ pc[p] = "map_lock_set"
    /\ locker' = locker \cup {req[p].id}
    /\ rw' = [rw EXCEPT !.writer = FALSE]
    /\ Return(p, Result("nil", "", StatusOK, <<>>))
    /\ UNCHANGED << store, req, lobj, calls, failed, before, lockedSince,
                    lastPosted, hold, srv >>

\* ------------------------------------------------------- specifications

\* One step of the goroutine p; m says which requests are drawn (the POSTs,
\* the lock tokens, the outcomes of decoding a LOCK / UNLOCK body) and
\* whether they arrive one after the other.
Step(p, m) ==
    \/ Get(p, m) \/ GetRetrieve(p)
    \/ Post(p, m) \/ PostRetrieve(p) \/ PostStore(p)
    \/ Lock(p, m) \/ LockRetrieve(p) \/ LockCreate(p) \/ B2LockGet(p) \/ B2LockPut(p)
    \/ Unlock(p, m) \/ UnlockRetrieve(p) \/ B2UnlockGet(p) \/ B2UnlockPut(p)
    \/ Other(p, m)
    \/ Finish(p)

\* Requests are served concurrently, one goroutine each.  A request rejected
\* before its first storage call reads and writes nothing shared, so the
\* concurrent specification draws the well-formed requests only.
Concurrent ==
    [posts |-> WellFormedPosts, tokens |-> Tokens \ {""}, decodes |-> {FALSE},
     serial |-> FALSE]

Next == \E p \in Procs : Step(p, Concurrent)

Spec == Init /\ [][Next]_vars

\* Requests arrive one after the other (a client that waits for each
\* answer) and are well formed.
Sequential ==
    [posts |-> WellFormedPosts, tokens |-> Tokens \ {""}, decodes |-> {FALSE},
     serial |-> TRUE]

SeqNext == \E p \in Procs : Step(p, Sequential)

SeqSpec == Init /\ [][SeqNext]_vars

\* Requests arrive one after the other and are drawn from every request the
\* model has: missing or wrong headers, wrong checksums, wrong lengths,
\* interrupted bodies, undecodable LOCK / UNLOCK bodies, empty tokens.
Unrestricted ==
    [posts |-> PostRequests, tokens |-> Tokens, decodes |-> BOOLEAN, serial |-> TRUE]

WideNext == \E p \in Procs : Step(p, Unrestricted)

WideSpec == Init /\ [][WideNext]_vars

\* The tests of the storage adapter, run one after the other, for any lock ID.
Direct == [posts |-> {}, tokens |-> Tokens, decodes |-> {FALSE}, serial |-> TRUE]

AdapterNext ==
    \E p \in Procs :
        \/ TestCycle(p, Direct) \/ TestCycleLock(p) \/ TestCycleStore(p) \/ TestCycleUnlock(p)
        \/ TestLock(p, Direct) \/ TestLockHold(p, Direct) \/ TestLockAgain(p)
        \/ B2StorePut(p) \/ B2LockGet(p) \/ B2LockPut(p) \/ B2UnlockGet(p) \/ B2UnlockPut(p)
        \/ HoldPut(p)
        \/ TestReturn(p)

AdapterSpec == Init /\ [][AdapterNext]_vars

\* The server from its start to the end of the process: requests arrive one
\* after the other until the listener is closed, and a termination signal
\* may arrive at any time.
ShutdownNext ==
    \/ \E p \in Procs : Step(p, Sequential)
    \/ Signal \/ ShutdownBegin \/ Expire \/ ShutdownReturns
    \/ StartReturns \/ MainReturns

ShutdownSpec == Init /\ [][ShutdownNext]_vars

\* The requests drawn for the revision keeping the locks in a map: every
\* shape of POST with a body of at most one byte, any lock ID.
MapRequests ==
    [posts   |-> {rq \in PostRequests :
                     Len(rq.body) <= 1 /\ rq.md5sum \in {"", Md5Base64(<< 97 >>)}},
     tokens  |-> Tokens, decodes |-> BOOLEAN, serial |-> FALSE]

MapNext ==
    \E p \in Procs :
        \/ MapGet(p, MapRequests)
        \/ MapPost(p, MapRequests) \/ MapPostRLock(p) \/ MapPostCheck(p) \/ MapPostStore(p)
        \/ MapLock(p, MapRequests) \/ MapLockAcquire(p) \/ MapLockSet(p)
        \/ Finish(p)

MapSpec == Init /\ [][MapNext]_vars

\* ------------------------------------------------------------ properties

\* The goroutine p has answered a request of the given method.
Answered(p, method) == pc[p] = "done" /\ req[p].method = method

\* The error is one of the two "locked with another ID" errors
\* (postState / lockState / unlockState, and B2.Lock / B2.Unlock).
LockConflict(r) == r.err \in {"lock conflict", "currently locked by"}

\* The stored object is a decodable Object whose LockID is id.
HeldBy(s, id) == s.kind = "json" /\ s.lock_id = id

\* The POST has every header handle asks for.
HeadersPass(rq) ==
    rq.idCount = 1 /\ rq.md5sum # "" /\ rq.ls # "" /\ ParseInt(rq.ls) # -1

\* C1: at most one lock holder at a time, in every interleaving of
\* concurrent requests: no two different tokens have both had a LOCK return
\* success with no UNLOCK having succeeded since.
C1_AtMostOneHolder == Cardinality(lockedSince) <= 1

\* C2: once LOCK(A) has succeeded and no UNLOCK has succeeded since, a LOCK
\* with any other token B (requests arriving one after the other) fails with
\* a lock conflict naming A, and the stored object, locked by A, is unchanged.
C2_LockExclusive ==
    \A p \in Procs : \A a \in lockedSince :
        (Answered(p, "LOCK") /\ req[p].id # a /\ ~failed[p])
            => /\ LockConflict(res[p])
               /\ res[p].names = a
               /\ HeldBy(store, a)
               /\ store = before

\* C3: LOCK is re-entrant: when the stored lock_id is non-empty and equals
\* the requested id, the LOCK succeeds again and leaves the stored object as
\* it was.
C3_Reentrant ==
    \A p \in Procs :
        (Answered(p, "LOCK") /\ ~failed[p] /\ req[p].id # "" /\ HeldBy(before, req[p].id))
            => res[p].err = "nil" /\ store = before

\* C4: while the path is held by A, an UNLOCK with another token B fails
\* with a lock conflict and leaves the stored lock_id (A) and payload unchanged.
C4_UnlockAuthorized ==
    \A p \in Procs :
        (/\ Answered(p, "UNLOCK") /\ ~failed[p]
         /\ before.kind = "json" /\ before.lock_id \notin {"", req[p].id})
            => /\ LockConflict(res[p])
               /\ store = before
               /\ HeldBy(store, before.lock_id)

\* An UNLOCK by another token than the holder's has been refused.
C4_Witness ==
    \E p \in Procs :
        /\ Answered(p, "UNLOCK") /\ ~failed[p]
        /\ HeldBy(before, "A") /\ req[p].id = "B"
        /\ LockConflict(res[p]) /\ HeldBy(store, "A")

\* C5: while the path is held by A, UNLOCK(A) succeeds and sets the stored
\* lock_id to empty (the payload kept); and on the object so released a LOCK
\* by any token B succeeds and makes B the holder.
C5_ReleaseFrees ==
    \A p \in Procs :
        /\ (/\ Answered(p, "UNLOCK") /\ ~failed[p]
            /\ req[p].id # "" /\ HeldBy(before, req[p].id))
              => /\ res[p].err = "nil"
                 /\ store = [before EXCEPT !.lock_id = ""]
        /\ (/\ Answered(p, "LOCK") /\ ~failed[p]
            /\ req[p].id # "" /\ HeldBy(before, ""))
              => /\ res[p].err = "nil"
                 /\ store = [before EXCEPT !.lock_id = req[p].id]

\* B has taken the lock that A held and released: the release is the last
\* UNLOCK to have succeeded and B's LOCK the only one to succeed since.
C5_Witness ==
    \E p \in Procs :
        /\ Answered(p, "LOCK") /\ ~failed[p] /\ req[p].id = "B"
        /\ HeldBy(before, "") /\ before.state # Null
        /\ res[p].err = "nil" /\ HeldBy(store, "B")
        /\ lockedSince = {"B"}

\* C6: a POST with a non-empty ID stores its payload only if the stored
\* object exists and its lock_id equals ID; in every other case (held by
\* another token, unlocked, or absent) it fails with a lock conflict and the
\* stored object is unchanged.
C6_ConditionalWrite ==
    \A p \in Procs :
        (/\ Answered(p, "POST") /\ ~failed[p] /\ req[p].id # ""
         /\ HeadersPass(req[p]) /\ ~req[p].readErr
         /\ req[p].md5sum = Md5Base64(req[p].body))
            => IF HeldBy(before, req[p].id)
               THEN store = JsonEncode(Object(req[p].id, req[p].body))
               ELSE LockConflict(res[p]) /\ store = before

\* C7: after a POST with ID = A succeeds while A holds the lock, the stored
\* lock_id is still A and the stored payload is exactly the posted body.
C7_WriteKeepsLock ==
    \A p \in Procs :
        (/\ Answered(p, "POST") /\ res[p].err = "nil" /\ res[p].status = StatusOK
         /\ req[p].id # "" /\ HeldBy(before, req[p].id))
            => /\ store.kind = "json"
               /\ JsonDecode(store) = Object(req[p].id, req[p].body)

\* A has replaced a payload under its lock.
C7_Witness ==
    \E p \in Procs :
        /\ Answered(p, "POST") /\ res[p].err = "nil" /\ req[p].id = "A"
        /\ HeldBy(before, "A") /\ req[p].body = << 97, 255 >>
        /\ before.state # store.state

\* C8: after a POST of payload P succeeds, a GET with no successful POST in
\* between (whatever LOCK and UNLOCK requests came between) returns exactly P.
C8_RoundTrip ==
    \A p \in Procs :
        (Answered(p, "GET") /\ ~failed[p] /\ lastPosted # <<>>)
            => res[p].err = "nil" /\ res[p].body = lastPosted[1]

\* A GET has returned a two-byte payload posted before the object was
\* locked, and another has returned the empty payload.
C8_Witness ==
    \E p \in Procs :
        /\ Answered(p, "GET") /\ ~failed[p]
        /\ lastPosted = << << 97, 255 >> >> /\ res[p].body = << 97, 255 >>
        /\ HeldBy(store, "A")

\* C9: a POST whose content-md5 differs from the base64 MD5 of the bytes
\* received is rejected before any storage access: no retrieve, no store, the
\* stored object unchanged, whatever the ID and the lock state.
C9_ChecksumEnforced ==
    \A p \in Procs :
        (/\ Answered(p, "POST") /\ HeadersPass(req[p])
         /\ req[p].md5sum # Md5Base64(req[p].body))
            => /\ res[p].err \notin {"", "nil"}
               /\ calls[p] = 0
               /\ store = before

\* A POST carrying the holder's ID and a wrong checksum has been rejected.
C9_Witness ==
    \E p \in Procs :
        /\ Answered(p, "POST") /\ HeadersPass(req[p]) /\ ~req[p].readErr
        /\ req[p].md5sum # Md5Base64(req[p].body)
        /\ req[p].id = "A" /\ HeldBy(store, "A")
        /\ res[p].err = "invalid checksum" /\ calls[p] = 0

\* C10: a POST whose number of body bytes received differs from the declared
\* content-length is rejected, with an error other than the checksum
\* mismatch, and changes nothing in storage, even when (the case stated here)
\* the content-md5 matches the bytes received.
C10_LengthEnforced ==
    \A p \in Procs :
        (/\ Answered(p, "POST") /\ HeadersPass(req[p])
         /\ req[p].md5sum = Md5Base64(req[p].body)
         /\ Len(req[p].body) # ParseInt(req[p].ls))
            => /\ res[p].err \notin {"", "nil", "invalid checksum"}
               /\ store = before

\* The content-length header is a base-10 integer.
Decimal(ls) == \E n \in 0..(MaxLen + 1) : ls = Itoa(n)

\* The POST passed the header checks, its body was read whole and its
\* content-md5 is the checksum of the body.
ValidPost(rq) ==
    HeadersPass(rq) /\ ~rq.readErr /\ rq.md5sum = Md5Base64(rq.body)

\* C11: a POST that lacks the content-md5 header or the content-length
\* header, or whose content-length is not a base-10 integer, is answered 400
\* and issues no storage call, so the stored object is unchanged.
C11_MandatoryHeaders ==
    \A p \in Procs :
        (/\ Answered(p, "POST") /\ req[p].idCount = 1
         /\ (req[p].md5sum = "" \/ ~Decimal(req[p].ls)))
            => /\ res[p].status = StatusBadRequest
               /\ calls[p] = 0
               /\ store = before

\* A POST with a content-md5 and a content-length that is no integer has
\* been answered 400 while A held the lock.
C11_Witness ==
    \E p \in Procs :
        /\ Answered(p, "POST") /\ req[p].idCount = 1
        /\ req[p].md5sum # "" /\ req[p].ls = "x"
        /\ res[p].status = StatusBadRequest /\ calls[p] = 0
        /\ HeldBy(store, "A")

\* C12: a GET on a path whose object does not exist answers with success and
\* an empty payload, and the path is still absent afterwards.
C12_BootstrapRead ==
    \A p \in Procs :
        (Answered(p, "GET") /\ before = Absent)
            => /\ res[p].status = StatusOK
               /\ res[p].body = <<>>
               /\ store = Absent

\* A GET has found no object (the GetObject call went through) and answered.
C12_Witness ==
    \E p \in Procs :
        /\ Answered(p, "GET") /\ before = Absent /\ ~failed[p] /\ calls[p] = 1
        /\ res[p].err = "failed to get state"
        /\ res[p].status = StatusOK /\ res[p].body = <<>>

\* C13: a LOCK with token id on a path whose object does not exist succeeds
\* and creates the object with lock_id = id and an absent payload.
C13_BootstrapLock ==
    \A p \in Procs :
        (Answered(p, "LOCK") /\ ~failed[p] /\ before = Absent)
            => /\ res[p].err = "nil"
               /\ store = JsonEncode(Object(req[p].id, Nil))
               /\ HeldBy(store, req[p].id) /\ store.state = Null

\* A LOCK by B has created the object.
C13_Witness ==
    \E p \in Procs :
        /\ Answered(p, "LOCK") /\ ~failed[p] /\ before = Absent
        /\ req[p].id = "B" /\ res[p].err = "nil"
        /\ HeldBy(store, "B") /\ lockedSince = {"B"}

\* C14: a POST with an empty ID and a valid checksum stores its payload
\* without any lock check (its only storage call is the store), whether the
\* object is absent, unlocked or held by any token.
C14_UnlockedWrite ==
    \A p \in Procs :
        (/\ Answered(p, "POST") /\ ~failed[p]
         /\ req[p].id = "" /\ ValidPost(req[p]))
            => /\ res[p].err = "nil"
               /\ calls[p] = 1
               /\ store.kind = "json"
               /\ JsonDecode(store).State = req[p].body

\* A POST with an empty ID has replaced the payload of an object A held.
C14_Witness ==
    \E p \in Procs :
        /\ Answered(p, "POST") /\ ~failed[p] /\ req[p].id = "" /\ ValidPost(req[p])
        /\ HeldBy(before, "A") /\ req[p].body = << 97 >>
        /\ res[p].err = "nil" /\ JsonDecode(store).State = << 97 >>

\* C15: every lock-conflict outcome (a LOCK refused because another token
\* holds the lock, an UNLOCK by a caller that is not the holder, a POST whose
\* ID is not the stored lock_id) is answered with status 409.
C15_ConflictStatus ==
    \A p \in Procs :
        (pc[p] = "done" /\ req[p].method \in {"POST", "LOCK", "UNLOCK"}
         /\ LockConflict(res[p]))
            => res[p].status = 409

\* C16: a POST rejected by payload validation (here, the checksum mismatch)
\* is answered with status 400, like a POST rejected for a missing header.
C16_ValidationStatus ==
    \A p \in Procs :
        (/\ Answered(p, "POST") /\ HeadersPass(req[p]) /\ ~req[p].readErr
         /\ req[p].md5sum # Md5Base64(req[p].body))
            => res[p].status = StatusBadRequest

\* C17: a GET whose retrieval fails with a storage error other than NotFound
\* (a failed GetObject or an undecodable stored object) is answered 500,
\* whereas a GET that finds no object is answered as an empty success.
C17_GetStorageFailure ==
    \A p \in Procs :
        Answered(p, "GET")
            => IF failed[p]
               THEN res[p].status = StatusInternalServerError
               ELSE before = Absent => res[p].status = StatusOK /\ res[p].body = <<>>

\* C18: a POST, LOCK or UNLOCK during which a storage call failed (retrieve,
\* store, or an undecodable stored object) is answered 500, never 200.
C18_StorageFailureStatus ==
    \A p \in Procs :
        (pc[p] = "done" /\ req[p].method \in {"POST", "LOCK", "UNLOCK"} /\ failed[p])
            => res[p].status = StatusInternalServerError

\* C19: a failed store is never reported as success: with requests arriving
\* one after the other, whenever a LOCK with token id returns success the
\* stored lock_id is id, and whenever an UNLOCK returns success the stored
\* lock_id is empty.
C19_StoreFailureSurfaced ==
    \A p \in Procs :
        /\ (Answered(p, "LOCK") /\ res[p].err = "nil") => HeldBy(store, req[p].id)
        /\ (Answered(p, "UNLOCK") /\ res[p].err = "nil") => HeldBy(store, "")

\* C20: an UNLOCK on a path that cannot be retrieved (no object, an
\* undecodable object, or a failed GetObject, in unlockState or in B2.Unlock)
\* returns an error and performs no store: the path is as it was.
C20_ReleaseUnretrievable ==
    \A p \in Procs :
        (/\ Answered(p, "UNLOCK")
         /\ (before.kind # "json" \/ (failed[p] /\ calls[p] <= 2)))
            => /\ res[p].err \notin {"", "nil"}
               /\ ~LockConflict(res[p])
               /\ store = before

\* An UNLOCK has found no object, returned its error and left the path absent.
C20_Witness ==
    \E p \in Procs :
        /\ Answered(p, "UNLOCK") /\ before = Absent /\ ~failed[p]
        /\ req[p].id = "A"
        /\ res[p].err = "failed to retrieve document" /\ store = Absent

\* The request is an Acquire, a Release or a conditional write.
Coordinated(p) ==
    \/ req[p].method \in {"LOCK", "UNLOCK"}
    \/ req[p].method = "POST" /\ req[p].id # ""

\* The operation of p has made its retrieve and has not finished its store.
Inside(p) ==
    \/ pc[p] \in {"lock_create", "b2lock_get", "b2lock_put", "b2unlock_get", "b2unlock_put"}
    \/ pc[p] = "post_store" /\ req[p].id # ""

\* What the caller of a request sees of its outcome.
Answer(r) == << r.status, r.body >>

\* C21: Acquire, Release and conditional-write operations are mutually
\* exclusive: while one of them is between its retrieve step and the end of
\* its store step, no other such operation makes a retrieve or a store.
C21_Serialized ==
    [][\A p, q \in Procs :
         (p # q /\ Inside(p) /\ Coordinated(q)) => calls'[q] <= calls[q]]_vars

\* C22: with no storage failure and no concurrent caller, for any lock ID,
\* every step of Store(unlocked empty object), Lock(id), Store(object with
\* LockID = id), Unlock(id) returns no error, and the cycle ends with the
\* object unlocked.
C22_Cycle ==
    \A p \in Procs :
        (pc[p] = "done" /\ req[p].method \in CycleSteps /\ ~failed[p])
            => /\ res[p].err = "nil"
               /\ req[p].method = "TestCycle: unlock" => store = JsonEncode(Object("", Nil))

\* The cycle has run to its end for the lock ID A, in six storage calls.
C22_Witness ==
    \E p \in Procs :
        /\ pc[p] = "done" /\ req[p].method = "TestCycle: unlock" /\ ~failed[p]
        /\ req[p].id = "A" /\ res[p].err = "nil" /\ calls[p] = 6
        /\ HeldBy(before, "A") /\ HeldBy(store, "")

\* C23: Lock on a file the same caller has already locked returns no error
\* and leaves the file locked: Lock(id) again with the same id on the adapter
\* locking by lock ID, Lock() again on the adapter locking by legal hold.
C23_LockIdempotent ==
    \A p \in Procs :
        /\ (/\ pc[p] = "done" /\ req[p].method = "Lock(id): re-lock a test file"
            /\ ~failed[p] /\ HeldBy(before, req[p].id))
              => res[p].err = "nil" /\ store = before
        /\ (/\ pc[p] = "done" /\ req[p].method = "Lock(): re-lock a test file"
            /\ ~failed[p])
              => res[p].err = "nil" /\ hold = "ON"

\* A has locked again the file it had locked, after a run of the test of
\* the legal hold that put the hold on.
C23_Witness ==
    \E p \in Procs :
        /\ pc[p] = "done" /\ req[p].method = "Lock(id): re-lock a test file"
        /\ ~failed[p] /\ req[p].id = "A" /\ HeldBy(before, "A")
        /\ res[p].err = "nil" /\ HeldBy(store, "A") /\ calls[p] = 4
        /\ hold = "ON"

\* C24: only LOCK and UNLOCK change lock ownership: the stored lock_id after
\* a successful POST equals the stored lock_id before it, a POST with an
\* empty ID issued while some token holds the lock included.
C24_PostKeepsOwnership ==
    \A p \in Procs :
        (Answered(p, "POST") /\ res[p].err = "nil")
            => store.kind = "json" /\ store.lock_id = before.lock_id

\* C25: a successful LOCK or UNLOCK on an existing object changes only
\* lock_id: the payload stored afterwards is the payload stored before.
C25_PayloadPreserved ==
    \A p \in Procs :
        (/\ pc[p] = "done" /\ req[p].method \in {"LOCK", "UNLOCK"}
         /\ res[p].err = "nil" /\ before.kind = "json")
            => /\ store.kind = "json"
               /\ store.state = before.state
               /\ JsonDecode(store).State = JsonDecode(before).State

\* A has locked an object holding a two-byte payload, and the payload is there.
C25_Witness ==
    \E p \in Procs :
        /\ Answered(p, "LOCK") /\ ~failed[p] /\ res[p].err = "nil" /\ req[p].id = "A"
        /\ HeldBy(before, "") /\ JsonDecode(before).State = << 97, 255 >>
        /\ HeldBy(store, "A") /\ JsonDecode(store).State = << 97, 255 >>

\* C26: storage errors are never reported as lock conflicts: when a storage
\* call of an Acquire, a Release or a conditional write fails and the
\* operation returns an error, the error is not a lock conflict and what the
\* caller is answered differs from what a caller refused for a lock conflict
\* is answered.
C26_StorageErrorDistinct ==
    \A p \in Procs :
        (pc[p] = "done" /\ Coordinated(p) /\ failed[p] /\ res[p].err # "nil")
            => /\ ~LockConflict(res[p])
               /\ \A q \in Procs :
                    (pc[q] = "done" /\ Coordinated(q) /\ LockConflict(res[q]))
                        => Answer(res[q]) # Answer(res[p])

\* C27: a conditional write never overwrites another holder's lock: in every
\* interleaving, when a POST with ID = A makes its store, the lock_id stored
\* at that moment is A.
C27_WriteUnderOwnLock ==
    [][\A p \in Procs :
         (/\ pc[p] = "post_store" /\ req[p].id # ""
          /\ pc'[p] = "done" /\ res'[p].err = "nil")
            => HeldBy(store, req[p].id)]_vars

\* C28: no request deletes state: once an object exists under the key, it
\* exists after every GET, POST, LOCK, UNLOCK and other-method request.
C28_NeverDeleted ==
    [][store.kind # "absent" => store'.kind # "absent"]_vars

\* A request of another method has been answered after a POST of one byte
\* and a LOCK by B, and the object is there.
C28_Witness ==
    \E p \in Procs :
        /\ Answered(p, "DELETE")
        /\ lastPosted = << << 97 >> >> /\ lockedSince = {"B"}
        /\ HeldBy(store, "B") /\ JsonDecode(store).State = << 97 >>

\* C29: a request whose method is none of GET, POST, LOCK, UNLOCK is a
\* no-op: it makes no retrieve and no store and leaves the stored object
\* unchanged.
C29_OtherMethodNoOp ==
    \A p \in Procs :
        (pc[p] = "done" /\ req[p].method \notin {"GET", "POST", "LOCK", "UNLOCK"})
            => calls[p] = 0 /\ ~failed[p] /\ store = before

\* A request of another method has been answered while A held the lock on
\* an object with a payload.
C29_Witness ==
    \E p \in Procs :
        /\ Answered(p, "DELETE") /\ calls[p] = 0
        /\ HeldBy(store, "A") /\ store.state \notin {Null, <<>>} /\ store = before

\* C30: a LOCK or UNLOCK whose body cannot be decoded is rejected without
\* any storage write: it returns an error and neither creates an object for
\* an absent path nor rewrites an existing one.
C30_UndecodableRejected ==
    \A p \in Procs :
        (pc[p] = "done" /\ req[p].method \in {"LOCK", "UNLOCK"} /\ req[p].decodeErr)
            => res[p].err # "nil" /\ store = before

\* C31: a successful LOCK always leaves the path locked: whenever a LOCK
\* returns success the stored lock_id is non-empty, so a LOCK whose token is
\* the empty string is never reported as a successful acquisition.
C31_LockLeavesLocked ==
    \A p \in Procs :
        (Answered(p, "LOCK") /\ res[p].err = "nil")
            => store.kind = "json" /\ store.lock_id # ""

\* C32: no automatic retry, and every request terminates: a request makes
\* at most three storage calls (the retrieve, the get and the put of a LOCK
\* or UNLOCK), a request one of whose storage calls failed has returned
\* without a further call, and a request in flight always has a next step.
C32_NoRetry ==
    \A p \in Procs :
        /\ calls[p] <= 3
        /\ failed[p] => pc[p] = "done"
        /\ pc[p] # "idle" => ENABLED Step(p, Unrestricted)

\* A LOCK has returned after its second storage call, the one that failed.
C32_Witness ==
    \E p \in Procs : Answered(p, "LOCK") /\ failed[p] /\ calls[p] = 2

\* C33: an interrupted upload commits nothing: a POST the reading of whose
\* body failed returns the error of the read, having made no storage call,
\* and the stored object is the one stored when the POST arrived.
C33_InterruptedUpload ==
    \A p \in Procs :
        (Answered(p, "POST") /\ HeadersPass(req[p]) /\ req[p].readErr)
            => /\ res[p].err = "failed to read body"
               /\ calls[p] = 0
               /\ store = before

\* The interrupted POST carries the holder's lock ID and the checksum of the
\* bytes received so far.
C33_Witness ==
    \E p \in Procs :
        /\ Answered(p, "POST") /\ HeadersPass(req[p]) /\ req[p].readErr
        /\ req[p].id = "A" /\ HeldBy(store, "A")
        /\ req[p].body = << 97 >> /\ req[p].md5sum = Md5Base64(req[p].body)

\* C34: graceful shutdown ordering: after a termination signal the process
\* does not end while a request is in flight unless the grace period given
\* to Shutdown has expired; a request is cut off by the end of the process
\* only after the expiry.
C34_GracefulShutdown ==
    \A p \in Procs : pc[p] = "killed" => srv.expired

\* C35: the revision with the map of locks is deadlock-free: postState gives
\* the read lock back on every return path, so a LOCK waiting for the write
\* lock can take it, or a goroutine that holds the mutex is still running
\* and will give it back.
C35_LockMapDeadlockFree ==
    \A p \in Procs :
        pc[p] = "map_lock_wait"
            => \/ ~rw.writer /\ rw.readers = 0
               \/ \E q \in Procs : pc[q] \in {"map_post_check", "map_lock_set"}

====
